---- MODULE Spec2Model ----
(***************************************************************************)
(* Progress-streaming relay of the Visual Learning Assistant               *)
(* (src/server/routes.ts): one WebSocket server, worker processes spawned  *)
(* by handleLessonGeneration, their stdout relayed line by line.           *)
(*                                                                         *)
(* Text is modelled as a sequence of one-character strings. The worker     *)
(* protocol is a miniature JSON: a value is "{" tag "}", where the tag     *)
(* stands for the members of the object; blanks around a value are allowed *)
(* and everything else is a syntax error.                                  *)
(***************************************************************************)
EXTENDS Integers, Sequences, FiniteSets, TLC

\* ---------------------------------------------------------------- bounds
MaxConns == 1
MaxMsgs == 2
MaxLines == 2

Conns == 1..MaxConns
\* every inbound message spawns at most one child
Pids == 1..MaxMsgs

\* ---------------------------------------------------------------- text
NL == "\n"
Blank == " "

\* tag character -> value of the "type" member of the decoded object
TypeOf(ch) ==
  CASE ch = "p" -> "progress"
    [] ch = "q" -> "progress"
    [] ch = "c" -> "content_chunk"
    [] ch = "k" -> "complete"
    [] ch = "e" -> "error"
    [] OTHER -> "undefined"

\* tag character -> value of the "data" member of the decoded object:
\* the name of the data object, "undefined" without data
DataOf(ch) ==
  CASE ch = "p" -> "key_points"
    [] ch = "q" -> "key_points_quiz"
    [] ch = "c" -> "chunk"
    [] OTHER -> "undefined"

\* the fields of the named data object of a progress message
DataObject(name) ==
  CASE name = "key_points" -> [key_points |-> "set"]
    [] name = "key_points_quiz" -> [key_points |-> "reset", quiz |-> "set"]
    [] OTHER -> [f \in {} |-> f]

\* tag character -> value of the "stage" member of the decoded object
StageOf(ch) ==
  CASE ch = "p" -> "lesson_planning"
    [] ch = "q" -> "quiz_generation"
    [] OTHER -> "undefined"

TagChars == {"p", "q", "c", "k", "e"}
Fields == {"key_points", "quiz"}

\* lines a worker may print (without the terminating newline)
WorkerLines ==
  { <<"{", "p", "}">>,      \* {"type":"progress","stage":..,"data":{..}}
    <<"{", "c", "}">>,      \* {"type":"content_chunk","data":{..}}
    <<"{", "k", "}">>,      \* {"type":"complete"}
    <<"{", "e", "}">>,      \* {"type":"error","message":..}
    <<"#">>,                \* diagnostic noise, not JSON
    <<Blank>>,              \* whitespace-only line
    <<>> }                  \* empty line

\* texts a worker may write to its stderr
StderrTexts == {"boom"}

\* String.prototype.trim
RECURSIVE trim(_)
trim(s) ==
  IF s = <<>> THEN s
  ELSE IF Head(s) = Blank THEN trim(Tail(s))
  ELSE IF s[Len(s)] = Blank THEN trim(SubSeq(s, 1, Len(s) - 1))
  ELSE s

\* split('\n') with the pieces in reverse order
splitReversed(chunk) ==
  LET nls == {i \in 1..Len(chunk) : chunk[i] = NL}
      starts == {1} \cup {i + 1 : i \in nls}
      nth(j) == CHOOSE s \in starts : Cardinality({t \in starts : t > s}) = j - 1
      stop(s) == IF \E i \in nls : i >= s
                 THEN (CHOOSE i \in nls : i >= s /\ \A k \in nls : k >= s => i <= k) - 1
                 ELSE Len(chunk)
  IN [j \in 1..Cardinality(starts) |->
        [text |-> SubSeq(chunk, nth(j), stop(nth(j))), start |-> nth(j)]]

\* String.prototype.split('\n'): the pieces between newlines, in order, each
\* with the offset (within the chunk) of its first character.
split(chunk) ==
  LET nls == {i \in 1..Len(chunk) : chunk[i] = NL}
      starts == {1} \cup {i + 1 : i \in nls}
      nth(j) == CHOOSE s \in starts : Cardinality({t \in starts : t < s}) = j - 1
      stop(s) == IF \E i \in nls : i >= s
                 THEN (CHOOSE i \in nls : i >= s /\ \A k \in nls : k >= s => i <= k) - 1
                 ELSE Len(chunk)
  IN [j \in 1..Cardinality(starts) |->
        [text |-> SubSeq(chunk, nth(j), stop(nth(j))), start |-> nth(j)]]

\* .filter(line => line.trim())
filter(pieces) == SelectSeq(pieces, LAMBDA p : trim(p.text) # <<>>)

\* JSON.parse: the decoded value, or ok = FALSE where JSON.parse throws.
JSONparse(text) ==
  LET t == trim(text) IN
  IF Len(t) = 3 /\ t[1] = "{" /\ t[3] = "}" /\ t[2] \in TagChars
    THEN [ok |-> TRUE, type |-> TypeOf(t[2]), stage |-> StageOf(t[2]), data |-> DataOf(t[2])]
    ELSE [ok |-> FALSE, type |-> "undefined", stage |-> "undefined", data |-> "undefined"]

\* ---------------------------------------------------------------- state
VARIABLES
  readyState,    \* ws.readyState of each accepted server-side socket
  sent,          \* the events ws.send put on each connection, in order
  received,      \* inbound messages handled so far (bounded by MaxMsgs)
  python,        \* life cycle of each spawned child process
  ws,            \* the socket captured by the handlers of each child
  exitCode,      \* exit code of each child that has exited
  stdout,        \* everything each child has written to its stdout
  rd,            \* how much of stdout the 'data' handler has been given
  currentState,  \* the accumulator of handleLessonGeneration
  decoded,       \* history: values JSON.parse returned in the 'data' handler
  closeSaw,      \* history: ws.readyState seen by the child's 'close' handler
  whole,         \* history: the lines of each child that arrived within one chunk
  stderr,        \* what each child wrote to its stderr (logged by the server)
  env,           \* LESSON_INPUT of each child: the request data it was spawned for
  crashed,       \* the server died of an unhandled 'error' event
  lessonState,   \* client: the state of useLesson (LessonState or null)
  folded,        \* client history: the events folded since the last startLesson
  prevState,     \* client history: lessonState before the last event was folded
  socket,        \* client: readyState of each WebSocket startLesson has created
  wsRef,         \* client: wsRef.current, 0 for null
  route,         \* facade: the endpoint each HTTP request was posted to
  topic,         \* facade: req.body.topic of each request
  child,         \* facade: life cycle of the child spawned for each request
  outputData,    \* facade: the stdout buffer of each request
  errorData,     \* facade: the stderr buffer of each request
  res,           \* facade: the responses sent for each request
  roadmapHistory, \* facade: the in-memory Map roadmapId -> history entry
  now,           \* facade: Date.now()
  got,           \* facade: the response to the last GET request
  down           \* facade: the server died of an uncaught exception

relayVars == <<readyState, sent, received, python, ws, exitCode, stdout, rd,
               currentState, decoded, closeSaw, whole, stderr, env, crashed>>
clientVars == <<lessonState, folded, prevState, socket, wsRef>>
facadeVars == <<route, topic, child, outputData, errorData, res, roadmapHistory, now, got, down>>
vars == <<relayVars, clientVars, facadeVars>>

\* inbound messages: generate_lesson with a well-formed request, generate_lesson
\* whose data lacks a valid topic, age_group or knowledge_level, another type,
\* the JSON text null (data.type throws a TypeError), and text that is not JSON
Inbound == {"generate_lesson", "generate_lesson_invalid", "other", "null", "badjson"}
\* data.data of a generate_lesson message
dataOf(m) == IF m = "generate_lesson" THEN "valid" ELSE "invalid"
SpawnOutcomes == {"ok", "error", "throw"}
ExitCodes == {0, 1}

\* let currentState: any = {}
EmptyState == [f \in Fields |-> "undefined"]

\* { ...currentState, ...message.data }
MergeFirstWins(cs, data) ==
  [f \in DOMAIN cs |->
     IF f \in DOMAIN DataObject(data) /\ cs[f] = "undefined" THEN DataObject(data)[f] ELSE cs[f]]
Merge(cs, data) ==
  [f \in DOMAIN cs |-> IF f \in DOMAIN DataObject(data) THEN DataObject(data)[f] ELSE cs[f]]

\* number of the line (1-based) that holds offset off of child w's stdout
LineAt(w, off) == 1 + Cardinality({i \in 1..(off - 1) : stdout[w][i] = NL})

\* lines printed on stdout and texts written to stderr, by all children
LinesWritten ==
  Cardinality(UNION {{<<w, i>> : i \in {j \in 1..Len(stdout[w]) : stdout[w][j] = NL}} : w \in Pids})
  + Cardinality(UNION {{<<w, i>> : i \in DOMAIN stderr[w]} : w \in Pids})

Event(type, data, src, line) == [type |-> type, data |-> data, src |-> src, line |-> line]

\* the server with the connections `conns` accepted and nothing received
relayStart(conns) ==
  /\ readyState = [c \in conns |-> "OPEN"]
  /\ sent = [c \in conns |-> <<>>]
  /\ received = 0
  /\ python = [w \in Pids |-> "none"]
  /\ ws = [w \in Pids |-> 0]
  /\ exitCode = [w \in Pids |-> 0]
  /\ stdout = [w \in Pids |-> <<>>]
  /\ rd = [w \in Pids |-> 0]
  /\ currentState = [w \in Pids |-> EmptyState]
  /\ decoded = [w \in Pids |-> <<>>]
  /\ closeSaw = [w \in Pids |-> "none"]
  /\ whole = [w \in Pids |-> {}]
  /\ stderr = [w \in Pids |-> <<>>]
  /\ env = [w \in Pids |-> "none"]
  /\ crashed = FALSE

relayInit == relayStart(Conns)

\* The event loop takes the next callback: the server is alive and no
\* process.nextTick callback (the 'error' event of a failed spawn) is due.
Ready == ~crashed /\ \A w \in Pids : python[w] # "spawnfail"

\* the peer's close frame arrives: the socket leaves OPEN
PeerClose(c) ==
  /\ Ready
  /\ readyState[c] = "OPEN"
  /\ readyState' = [readyState EXCEPT ![c] = "CLOSING"]
  /\ UNCHANGED <<sent, received, python, ws, exitCode, stdout, rd,
                 currentState, decoded, closeSaw, whole, stderr, env, crashed>>
  /\ UNCHANGED <<clientVars, facadeVars>>

\* ws.on('close'): the handler logs and does nothing else
wsOnClose(c) ==
  /\ Ready
  /\ readyState[c] \in {"OPEN", "CLOSING"}
  /\ readyState' = [readyState EXCEPT ![c] = "CLOSED"]
  /\ UNCHANGED <<sent, received, python, ws, exitCode, stdout, rd,
                 currentState, decoded, closeSaw, whole, stderr, env, crashed>>
  /\ UNCHANGED <<clientVars, facadeVars>>

\* ws.readyState === WebSocket.OPEN
isOpenLoose(c) == readyState[c] # "CLOSED"
isOpen(c) == readyState[c] = "OPEN"

\* code !== 0
exitFailedInverted(code) == code = 0
exitFailed(code) == code # 0

WorkflowFailed == Event("error", [message |-> "Workflow execution failed"], 0, 0)
FailedToProcess == Event("error", [message |-> "Failed to process request"], 0, 0)

\* handleLessonGeneration with the socket kept in one variable shared by all calls
handleLessonGenerationShared(c, input, outcome) ==
  IF outcome = "throw"
  THEN /\ sent' = [sent EXCEPT ![c] = Append(@, FailedToProcess)]
       /\ UNCHANGED <<python, ws, currentState, env>>
  ELSE \E w \in Pids :
         /\ python[w] = "none"
         /\ \A v \in Pids : v < w => python[v] # "none"
         /\ python' = [python EXCEPT ![w] = IF outcome = "ok" THEN "running" ELSE "spawnfail"]
         /\ ws' = [v \in Pids |-> IF v <= w THEN c ELSE ws[v]]
         /\ env' = [env EXCEPT ![w] = input]
         /\ currentState' = [currentState EXCEPT ![w] = EmptyState]
         /\ UNCHANGED sent

\* handleLessonGeneration(ws, input): spawn, then register the handlers.
\* outcome "ok": the child runs; "error": spawn returns a child whose 'error'
\* event is due on the next tick; "throw": spawn throws synchronously.
handleLessonGeneration(c, input, outcome) ==
  IF outcome = "throw"
  THEN /\ sent' = [sent EXCEPT ![c] = Append(@, FailedToProcess)]
       /\ UNCHANGED <<python, ws, currentState, env>>
  ELSE \E w \in Pids :
         /\ python[w] = "none"
         /\ \A v \in Pids : v < w => python[v] # "none"
         /\ python' = [python EXCEPT ![w] = IF outcome = "ok" THEN "running" ELSE "spawnfail"]
         /\ ws' = [ws EXCEPT ![w] = c]
         /\ env' = [env EXCEPT ![w] = input]
         /\ currentState' = [currentState EXCEPT ![w] = EmptyState]
         /\ UNCHANGED sent

\* ws.on('message')
wsOnMessage(c, m, outcome) ==
  /\ Ready
  /\ readyState[c] = "OPEN"
  /\ received < MaxMsgs
  /\ received' = received + 1
  /\ CASE m \in {"badjson", "null"} ->
            /\ outcome = "ok"
            /\ sent' = [sent EXCEPT ![c] = Append(@, FailedToProcess)]
            /\ UNCHANGED <<python, ws, currentState, env>>
       [] m = "other" ->
            /\ outcome = "ok"
            /\ UNCHANGED <<sent, python, ws, currentState, env>>
       [] OTHER -> handleLessonGeneration(c, dataOf(m), outcome)
  /\ UNCHANGED <<readyState, exitCode, stdout, rd, decoded, closeSaw, whole, stderr, crashed>>
  /\ UNCHANGED <<clientVars, facadeVars>>

\* The child's 'error' event has no listener: emit throws and the process dies.
ChildError(w) ==
  /\ ~crashed
  /\ python[w] = "spawnfail"
  /\ crashed' = TRUE
  /\ UNCHANGED <<readyState, sent, received, python, ws, exitCode, stdout, rd,
                 currentState, decoded, closeSaw, whole, stderr, env>>
  /\ UNCHANGED <<clientVars, facadeVars>>

\* the worker prints one line, while fewer than max have been written
WorkerPrints(w, l, max) ==
  /\ Ready
  /\ python[w] = "running"
  /\ LinesWritten < max
  /\ stdout' = [stdout EXCEPT ![w] = @ \o l \o <<NL>>]
  /\ UNCHANGED <<readyState, sent, received, python, ws, exitCode, rd,
                 currentState, decoded, closeSaw, whole, stderr, env, crashed>>
  /\ UNCHANGED <<clientVars, facadeVars>>

WorkerWrite(w, l) == WorkerPrints(w, l, MaxLines)

\* python.stderr.on('data'): console.error, nothing else
stderrOnData(w, text) ==
  /\ Ready
  /\ python[w] = "running"
  /\ LinesWritten < MaxLines
  /\ stderr' = [stderr EXCEPT ![w] = Append(@, text)]
  /\ UNCHANGED <<readyState, sent, received, python, ws, exitCode, stdout, rd,
                 currentState, decoded, closeSaw, whole, env, crashed>>
  /\ UNCHANGED <<clientVars, facadeVars>>

\* body of the for loop of python.stdout.on('data') for one line
onLine(acc, piece, w, open) ==
  LET m == JSONparse(piece.text)
      n == LineAt(w, rd[w] + piece.start)
      dec == Append(acc.dec, [type |-> m.type, line |-> n])
  IN IF ~m.ok THEN acc
     ELSE IF m.type = "progress" THEN
       [cs |-> Merge(acc.cs, m.data),
        out |-> IF open
                THEN Append(acc.out, Event("progress",
                       [stage |-> m.stage, progress |-> 0, message |-> "", data |-> m.data], w, n))
                ELSE acc.out,
        dec |-> dec]
     ELSE IF m.type = "content_chunk" THEN
       [cs |-> acc.cs,
        out |-> IF open THEN Append(acc.out, Event("content_chunk", m.data, w, n)) ELSE acc.out,
        dec |-> dec]
     ELSE IF m.type = "complete" THEN
       [cs |-> acc.cs,
        out |-> IF open THEN Append(acc.out, Event("complete", acc.cs, w, n)) ELSE acc.out,
        dec |-> dec]
     ELSE [cs |-> acc.cs, out |-> acc.out, dec |-> dec]

RECURSIVE forLines(_, _, _, _, _)
forLines(acc, lines, i, w, open) ==
  IF i > Len(lines) THEN acc
  ELSE forLines(onLine(acc, lines[i], w, open), lines, i + 1, w, open)

\* the lines with text that lie within the chunk of the next k characters
wholeLines(w, k) ==
  LET chunk == SubSeq(stdout[w], rd[w] + 1, rd[w] + k)
      pieces == split(chunk)
      first(p) == rd[w] + p.start
      last(p) == rd[w] + p.start + Len(p.text) - 1
  IN {LineAt(w, first(pieces[j])) : j \in
        {i \in DOMAIN pieces :
           /\ pieces[i].text # <<>>
           /\ first(pieces[i]) = 1 \/ stdout[w][first(pieces[i]) - 1] = NL
           /\ last(pieces[i]) < Len(stdout[w])
           /\ stdout[w][last(pieces[i]) + 1] = NL}}

\* python.stdout.on('data') with a chunk of k characters
stdoutOnData(w, k) ==
  /\ Ready
  /\ python[w] = "running"
  /\ k \in 1..(Len(stdout[w]) - rd[w])
  /\ LET chunk == SubSeq(stdout[w], rd[w] + 1, rd[w] + k)
         lines == filter(split(chunk))
         open == isOpen(ws[w])
         r == forLines([cs |-> currentState[w], out |-> sent[ws[w]], dec |-> decoded[w]],
                       lines, 1, w, open)
     IN /\ currentState' = [currentState EXCEPT ![w] = r.cs]
        /\ sent' = [sent EXCEPT ![ws[w]] = r.out]
        /\ decoded' = [decoded EXCEPT ![w] = r.dec]
  /\ rd' = [rd EXCEPT ![w] = @ + k]
  /\ whole' = [whole EXCEPT ![w] = @ \cup wholeLines(w, k)]
  /\ UNCHANGED <<readyState, received, python, ws, exitCode, stdout, closeSaw, stderr, env, crashed>>
  /\ UNCHANGED <<clientVars, facadeVars>>

\* python.on('close') of a supervisor that starts a failed worker once more
pythonOnCloseRetry(w, code) ==
  /\ Ready
  /\ python[w] = "running"
  /\ rd[w] = Len(stdout[w])
  /\ exitCode' = [exitCode EXCEPT ![w] = code]
  /\ closeSaw' = [closeSaw EXCEPT ![w] = readyState[ws[w]]]
  /\ sent' = [sent EXCEPT ![ws[w]] =
                IF exitFailed(code) /\ isOpen(ws[w])
                THEN Append(@, Event("error", [message |-> "Workflow execution failed"], w, 0))
                ELSE @]
  /\ IF exitFailed(code) /\ \E v \in Pids : python[v] = "none"
     THEN LET v == CHOOSE u \in Pids : python[u] = "none" /\ \A t \in Pids : t < u => python[t] # "none"
          IN /\ python' = [python EXCEPT ![w] = "closed", ![v] = "running"]
             /\ ws' = [ws EXCEPT ![v] = ws[w]]
             /\ env' = [env EXCEPT ![v] = env[w]]
     ELSE /\ python' = [python EXCEPT ![w] = "closed"]
          /\ UNCHANGED <<ws, env>>
  /\ UNCHANGED <<readyState, received, stdout, rd, currentState, decoded, whole, stderr, crashed>>
  /\ UNCHANGED <<clientVars, facadeVars>>

\* python.on('close'): the child has exited with `code` and its stdout has been
\* read to the end. No handler listens to 'exit', so the exit itself is not seen.
pythonOnClose(w, code) ==
  /\ Ready
  /\ python[w] = "running"
  /\ rd[w] = Len(stdout[w])
  /\ python' = [python EXCEPT ![w] = "closed"]
  /\ exitCode' = [exitCode EXCEPT ![w] = code]
  /\ closeSaw' = [closeSaw EXCEPT ![w] = readyState[ws[w]]]
  /\ sent' = [sent EXCEPT ![ws[w]] =
                IF exitFailed(code) /\ isOpen(ws[w])
                THEN Append(@, Event("error", [message |-> "Workflow execution failed"], w, 0))
                ELSE @]
  /\ UNCHANGED <<readyState, received, ws, stdout, rd, currentState, decoded, whole, stderr, env, crashed>>
  /\ UNCHANGED <<clientVars, facadeVars>>

\* ---------------------------------------------------------------- client
\* src/client/src/hooks/useLesson.ts. Objects are functions from field names
\* to values; a field an object does not have is outside its DOMAIN.
MaxEvents == 3
MaxSockets == 2
Sockets == 1..MaxSockets

Null == [null |-> TRUE]
EmptyObject == [f \in {} |-> f]

LessonInputs ==
  {[topic |-> "Photosynthesis", age_group |-> "High School", knowledge_level |-> "Beginner"]}
Titles == {"t1", "t2"}
Chunks == {<<"H">>, <<"w">>}
Stages == {"lesson_planning", "quiz_complete"}
ErrorMessages == {"Workflow execution failed"}

\* the data objects (Partial<LessonState>) a progress event may carry
ProgressData ==
  << EmptyObject,
     [key_points |-> <<"kp">>],
     [quiz |-> "q"],
     [current_processing |-> "error"],
     [errors |-> <<>>] >>

\* the data a complete event may carry (the relay's accumulated state)
CompleteData == << EmptyObject, [key_points |-> <<"kp2">>] >>

\* { ...a, ...b }
Spread(a, b) ==
  [f \in (DOMAIN a) \cup (DOMAIN b) |-> IF f \in DOMAIN b THEN b[f] ELSE a[f]]

\* const initialState: LessonState = {...}
initialState(input) ==
  [topic |-> input.topic,
   age_group |-> input.age_group,
   knowledge_level |-> input.knowledge_level,
   key_points |-> <<>>,
   images_data |-> EmptyObject,
   analyzed_descriptions |-> EmptyObject,
   content_data |-> EmptyObject,
   current_processing |-> "initializing",
   completed_points |-> <<>>,
   errors |-> <<>>]

\* { ...prev } without the data of the event: the state is replaced
onProgressReplace(prev, update) ==
  Spread(Spread(initialState([topic |-> prev.topic, age_group |-> prev.age_group,
                              knowledge_level |-> prev.knowledge_level]),
                [current_processing |-> update.stage]), update.data)

\* message.type === "progress":
\* { ...prev, current_processing: update.stage, ...update.data }
onProgress(prev, update) ==
  Spread(Spread(prev, [current_processing |-> update.stage]), update.data)

\* last write wins instead of concatenation
onContentChunkReplace(prev, chunk) ==
  Spread(prev, [content_data |->
    Spread(prev.content_data, [t \in {chunk.point_title} |-> chunk.chunk])])

\* message.type === "content_chunk":
\* content_data: { ...prev.content_data, [title]: (prev.content_data[title] || "") + chunk }
onContentChunk(prev, chunk) ==
  LET old == IF chunk.point_title \in DOMAIN prev.content_data
             THEN prev.content_data[chunk.point_title]
             ELSE <<>>
  IN Spread(prev, [content_data |->
       Spread(prev.content_data, [t \in {chunk.point_title} |-> old \o chunk.chunk])])

\* the data of the event merged into the state as well
onCompleteMerge(prev, data) ==
  Spread(Spread(prev, data), [current_processing |-> "complete"])

\* message.type === "complete": { ...prev, current_processing: "complete" }
onComplete(prev, data) ==
  Spread(prev, [current_processing |-> "complete"])

\* the error also moves the stage
onErrorStage(prev, data) ==
  Spread(prev, [errors |-> Append(prev.errors, data.message), current_processing |-> "error"])

\* message.type === "error": { ...prev, errors: [...prev.errors, message.data.message] }
onError(prev, data) ==
  Spread(prev, [errors |-> Append(prev.errors, data.message)])

\* the body of ws.onmessage for a non-null prev
reduce(prev, message) ==
  IF message.type = "progress" THEN onProgress(prev, message.data)
  ELSE IF message.type = "content_chunk" THEN onContentChunk(prev, message.data)
  ELSE IF message.type = "complete" THEN onComplete(prev, message.data)
  ELSE IF message.type = "error" THEN onError(prev, message.data)
  ELSE prev

clientInit ==
  /\ lessonState = Null
  /\ folded = <<>>
  /\ prevState = Null
  /\ socket = [s \in Sockets |-> "none"]
  /\ wsRef = 0

\* startLesson: setLessonState(initialState); wsRef.current = new WebSocket(..).
\* The socket wsRef pointed to before is left as it is.
startLesson(input) ==
  /\ \E s \in Sockets :
       /\ socket[s] = "none"
       /\ \A t \in Sockets : t < s => socket[t] # "none"
       /\ socket' = [socket EXCEPT ![s] = "CONNECTING"]
       /\ wsRef' = s
  /\ lessonState' = initialState(input)
  /\ folded' = <<>>
  /\ prevState' = Null
  /\ UNCHANGED <<relayVars, facadeVars>>

\* ws.onopen: the connection is established and the request is sent
onopen(s) ==
  /\ socket[s] = "CONNECTING"
  /\ socket' = [socket EXCEPT ![s] = "OPEN"]
  /\ UNCHANGED <<lessonState, folded, prevState, wsRef>>
  /\ UNCHANGED <<relayVars, facadeVars>>

\* clearLesson: close wsRef.current if it is OPEN; setLessonState(null).
\* A closing socket delivers no more message events.
clearLesson ==
  /\ socket' = IF wsRef # 0 /\ socket[wsRef] = "OPEN"
                THEN [socket EXCEPT ![wsRef] = "CLOSED"]
                ELSE socket
  /\ lessonState' = Null
  /\ folded' = <<>>
  /\ prevState' = Null
  /\ UNCHANGED wsRef
  /\ UNCHANGED <<relayVars, facadeVars>>

\* the events the relay may deliver, by type
progressMessage(stage, i) ==
  [type |-> "progress",
   data |-> [stage |-> stage, progress |-> 0, message |-> "", data |-> ProgressData[i]]]
contentChunkMessage(title, chunk) ==
  [type |-> "content_chunk",
   data |-> [point_title |-> title, chunk |-> chunk, complete |-> FALSE]]
completeMessage(i) == [type |-> "complete", data |-> CompleteData[i]]
errorMessage(m) == [type |-> "error", data |-> [message |-> m]]

\* ws.onmessage: setLessonState(prev => { if (!prev) return prev; return next })
onmessage(s, message) ==
  /\ socket[s] = "OPEN"
  /\ Len(folded) < MaxEvents
  /\ IF lessonState = Null
     THEN UNCHANGED <<lessonState, folded, prevState>>
     ELSE /\ lessonState' = reduce(lessonState, message)
          /\ folded' = Append(folded, message)
          /\ prevState' = lessonState
  /\ UNCHANGED <<socket, wsRef>>
  /\ UNCHANGED <<relayVars, facadeVars>>

\* ws.onerror: the same update as an error event, with a fixed message; the
\* browser closes a socket that has failed
onerror(s) ==
  /\ socket[s] \in {"CONNECTING", "OPEN"}
  /\ Len(folded) < MaxEvents
  /\ IF lessonState = Null
     THEN UNCHANGED <<lessonState, folded, prevState>>
     ELSE /\ lessonState' = onError(lessonState, [message |-> "Connection error occurred"])
          /\ folded' = Append(folded, [type |-> "onerror"])
          /\ prevState' = lessonState
  /\ socket' = [socket EXCEPT ![s] = "CLOSED"]
  /\ UNCHANGED wsRef
  /\ UNCHANGED <<relayVars, facadeVars>>

\* ---------------------------------------------------------------- facade
MaxReqs == 2
MaxWrites == 3
MaxNow == 1
Reqs == 1..MaxReqs

\* req.body.topic and req.body.topicTitle: "" stands for a missing field
TopicInputs == {"", "ai"}
TitleInputs == {"", "intro"}

\* lines a roadmap or topic worker may print: a metadata record, two phase
\* records, noise and a blank line
RecordTags == {"m", "f", "g"}
RecordType(ch) == IF ch = "m" THEN "metadata" ELSE "phase"
RecordData(ch) ==
  IF ch = "m" THEN [title |-> "T"]
  ELSE IF ch = "f" THEN [name |-> "P1"]
  ELSE [name |-> "P2"]
FacadeLines == { <<"{", "m", "}">>, <<"{", "f", "}">>, <<"{", "g", "}">>, <<"#">>, <<Blank>> }

\* String.prototype.trim on a text with newlines
RECURSIVE trimWhitespace(_)
trimWhitespace(s) ==
  IF s = <<>> THEN s
  ELSE IF Head(s) \in {Blank, NL} THEN trimWhitespace(Tail(s))
  ELSE IF s[Len(s)] \in {Blank, NL} THEN trimWhitespace(SubSeq(s, 1, Len(s) - 1))
  ELSE s

\* JSON.parse of a worker record
parseRecord(text) ==
  LET t == trimWhitespace(text) IN
  IF Len(t) = 3 /\ t[1] = "{" /\ t[3] = "}" /\ t[2] \in RecordTags
    THEN [ok |-> TRUE, type |-> RecordType(t[2]), data |-> RecordData(t[2])]
    ELSE [ok |-> FALSE, type |-> "undefined", data |-> EmptyObject]

\* Number.prototype.toString for a non-negative integer
Digits == <<"0", "1", "2", "3", "4", "5", "6", "7", "8", "9">>
RECURSIVE toString(_)
toString(n) ==
  IF n < 10 THEN <<Digits[n + 1]>>
  ELSE toString(n \div 10) \o <<Digits[(n % 10) + 1]>>

\* outputData.substring(0, n)
substring(text, n) == SubSeq(text, 1, IF Len(text) < n THEN Len(text) ELSE n)

Response(status, body) == [status |-> status, body |-> body]

facadeInit ==
  /\ route = [r \in Reqs |-> "none"]
  /\ topic = [r \in Reqs |-> ""]
  /\ child = [r \in Reqs |-> "none"]
  /\ outputData = [r \in Reqs |-> <<>>]
  /\ errorData = [r \in Reqs |-> <<>>]
  /\ res = [r \in Reqs |-> <<>>]
  /\ roadmapHistory = [id \in {} |-> id]
  /\ now = 0
  /\ got = Response(0, EmptyObject)
  /\ down = FALSE

\* time passes
Tick ==
  /\ ~down
  /\ now < MaxNow
  /\ now' = now + 1
  /\ UNCHANGED <<route, topic, child, outputData, errorData, res, roadmapHistory, down>>
  /\ UNCHANGED <<relayVars, clientVars, got>>

\* spawn in a facade handler, outcome as in handleLessonGeneration; a throw is
\* caught by the handler's try/catch, which answers 500 with `failure`
facadeSpawn(r, outcome, failure) ==
  IF outcome = "throw"
  THEN /\ res' = [res EXCEPT ![r] = Append(@, Response(500, failure))]
       /\ UNCHANGED child
  ELSE /\ child' = [child EXCEPT ![r] = IF outcome = "ok" THEN "running" ELSE "spawnfail"]
       /\ UNCHANGED res

\* app.post("/api/roadmap/generate")
postRoadmapGenerate(r, t, outcome) ==
  /\ ~down
  /\ route[r] = "none"
  /\ \A q \in Reqs : q < r => route[q] # "none"
  /\ route' = [route EXCEPT ![r] = "roadmap"]
  /\ topic' = [topic EXCEPT ![r] = t]
  /\ IF t = ""
     THEN /\ outcome = "ok"
          /\ res' = [res EXCEPT ![r] = Append(@, Response(400, [error |-> "Topic is required"]))]
          /\ UNCHANGED child
     ELSE facadeSpawn(r, outcome,
            [error |-> "Failed to generate roadmap", details |-> <<"spawn failed">>])
  /\ UNCHANGED <<outputData, errorData, roadmapHistory, now, down>>
  /\ UNCHANGED <<relayVars, clientVars, got>>

\* app.post("/api/roadmap/generate-topic-content")
postGenerateTopicContent(r, t, topicTitle, outcome) ==
  /\ ~down
  /\ route[r] = "none"
  /\ \A q \in Reqs : q < r => route[q] # "none"
  /\ route' = [route EXCEPT ![r] = "topic"]
  /\ topic' = [topic EXCEPT ![r] = t]
  /\ IF t = "" \/ topicTitle = ""
     THEN /\ outcome = "ok"
          /\ res' = [res EXCEPT ![r] =
                       Append(@, Response(400, [error |-> "Topic and topicTitle are required"]))]
          /\ UNCHANGED child
     ELSE facadeSpawn(r, outcome, [error |-> "spawn failed"])
  /\ UNCHANGED <<outputData, errorData, roadmapHistory, now, down>>
  /\ UNCHANGED <<relayVars, clientVars, got>>

\* what the children of all requests have written so far
FacadeWritten ==
  Cardinality(UNION {{<<r, i>> : i \in {j \in 1..Len(outputData[r]) : outputData[r][j] = NL}} : r \in Reqs})
  + Cardinality(UNION {{<<r, i>> : i \in DOMAIN errorData[r]} : r \in Reqs})

\* python.stdout.on('data'): outputData += chunk
facadeStdoutOnData(r, l) ==
  /\ ~down
  /\ child[r] = "running"
  /\ FacadeWritten < MaxWrites
  /\ outputData' = [outputData EXCEPT ![r] = @ \o l \o <<NL>>]
  /\ UNCHANGED <<route, topic, child, errorData, res, roadmapHistory, now, down>>
  /\ UNCHANGED <<relayVars, clientVars, got>>

\* python.stderr.on('data'): errorData += chunk
facadeStderrOnData(r, text) ==
  /\ ~down
  /\ child[r] = "running"
  /\ FacadeWritten < MaxWrites
  /\ errorData' = [errorData EXCEPT ![r] = Append(@, text)]
  /\ UNCHANGED <<route, topic, child, outputData, res, roadmapHistory, now, down>>
  /\ UNCHANGED <<relayVars, clientVars, got>>

\* res.status(..).json(..) in an event handler: the first call answers the
\* request, a second call throws ERR_HTTP_HEADERS_SENT, which nothing catches
json(r, response) ==
  IF res[r] = <<>>
  THEN res' = [res EXCEPT ![r] = Append(@, response)] /\ UNCHANGED down
  ELSE down' = TRUE /\ UNCHANGED res

\* the roadmap assembled with the phases in reverse order
assemblePhasesReversed(out) ==
  LET lines == filter(split(trimWhitespace(out)))
      parsedData == [i \in DOMAIN lines |-> parseRecord(lines[i].text)]
      metas == {i \in DOMAIN parsedData : parsedData[i].type = "metadata"}
      metadataObj == parsedData[CHOOSE i \in metas : \A k \in metas : i <= k]
      phaseObjs == SelectSeq(parsedData, LAMBDA o : o.type = "phase")
  IN IF Len(lines) = 0
       THEN [ok |-> FALSE, message |-> <<"No output received from Python script">>, roadmap |-> EmptyObject]
     ELSE IF \E i \in DOMAIN parsedData : ~parsedData[i].ok
       THEN [ok |-> FALSE, message |-> <<"Unexpected token">>, roadmap |-> EmptyObject]
     ELSE IF metas = {}
       THEN [ok |-> FALSE, message |-> <<"No metadata found in response">>, roadmap |-> EmptyObject]
     ELSE [ok |-> TRUE, message |-> <<>>,
           roadmap |-> Spread(metadataObj.data,
                              [phases |-> [i \in DOMAIN phaseObjs |-> phaseObjs[Len(phaseObjs) + 1 - i].data]])]

\* the roadmap assembled from the lines that parse, the others skipped
assembleSkipsBadLines(out) ==
  LET lines == filter(split(trimWhitespace(out)))
      parsedData == SelectSeq([i \in DOMAIN lines |-> parseRecord(lines[i].text)],
                              LAMBDA o : o.ok)
      metas == {i \in DOMAIN parsedData : parsedData[i].type = "metadata"}
      metadataObj == parsedData[CHOOSE i \in metas : \A k \in metas : i <= k]
      phaseObjs == SelectSeq(parsedData, LAMBDA o : o.type = "phase")
  IN IF Len(lines) = 0
       THEN [ok |-> FALSE, message |-> <<"No output received from Python script">>, roadmap |-> EmptyObject]
     ELSE IF \E i \in DOMAIN parsedData : ~parsedData[i].ok
       THEN [ok |-> FALSE, message |-> <<"Unexpected token">>, roadmap |-> EmptyObject]
     ELSE IF metas = {}
       THEN [ok |-> FALSE, message |-> <<"No metadata found in response">>, roadmap |-> EmptyObject]
     ELSE [ok |-> TRUE, message |-> <<>>,
           roadmap |-> Spread(metadataObj.data,
                              [phases |-> [i \in DOMAIN phaseObjs |-> phaseObjs[i].data]])]

\* the try block of the roadmap 'close' handler: the roadmap assembled from
\* the buffered output, or the message of the error it throws
assemble(out) ==
  LET lines == filter(split(trimWhitespace(out)))
      parsedData == [i \in DOMAIN lines |-> parseRecord(lines[i].text)]
      metas == {i \in DOMAIN parsedData : parsedData[i].type = "metadata"}
      metadataObj == parsedData[CHOOSE i \in metas : \A k \in metas : i <= k]
      phaseObjs == SelectSeq(parsedData, LAMBDA o : o.type = "phase")
  IN IF Len(lines) = 0
       THEN [ok |-> FALSE, message |-> <<"No output received from Python script">>, roadmap |-> EmptyObject]
     ELSE IF \E i \in DOMAIN parsedData : ~parsedData[i].ok
       THEN [ok |-> FALSE, message |-> <<"Unexpected token">>, roadmap |-> EmptyObject]
     ELSE IF metas = {}
       THEN [ok |-> FALSE, message |-> <<"No metadata found in response">>, roadmap |-> EmptyObject]
     ELSE [ok |-> TRUE, message |-> <<>>,
           roadmap |-> Spread(metadataObj.data,
                              [phases |-> [i \in DOMAIN phaseObjs |-> phaseObjs[i].data]])]

\* errorData || "Python process exited with error"
detailsOf(err) == IF err = <<>> THEN <<"Python process exited with error">> ELSE err

\* the response of the roadmap 'close' handler when code !== 0
roadmapFailed(code, err) ==
  Response(500, [error |-> "Failed to generate roadmap", details |-> detailsOf(err),
                 exitCode |-> code])

\* python.on('close') of /api/roadmap/generate. After a failed spawn Node
\* emits 'close' as well, with the negative error number as code.
roadmapOnClose(r, code) ==
  /\ ~down
  /\ route[r] = "roadmap"
  /\ \/ child[r] = "running" /\ code \in ExitCodes
     \/ child[r] = "errored" /\ code = -2
  /\ child' = [child EXCEPT ![r] = "closed"]
  /\ IF code # 0
     THEN /\ json(r, roadmapFailed(code, errorData[r]))
          /\ UNCHANGED roadmapHistory
     ELSE LET a == assemble(outputData[r])
              roadmapId == toString(now)
              historyEntry == [id |-> roadmapId, topic |-> topic[r],
                               roadmap |-> a.roadmap, createdAt |-> now]
          IN IF a.ok
             THEN /\ roadmapHistory' =
                       [id \in DOMAIN roadmapHistory \cup {roadmapId} |->
                          IF id = roadmapId THEN historyEntry ELSE roadmapHistory[id]]
                  /\ json(r, Response(200, [roadmap |-> a.roadmap, roadmapId |-> roadmapId]))
             ELSE /\ json(r, Response(500, [error |-> "Failed to parse roadmap response",
                                            details |-> a.message,
                                            rawOutput |-> substring(outputData[r], 500)]))
                  /\ UNCHANGED roadmapHistory
  /\ UNCHANGED <<route, topic, outputData, errorData, now>>
  /\ UNCHANGED <<relayVars, clientVars, got>>

\* the response of the topic 'close' handler when code !== 0
topicFailed(err) ==
  Response(500, [error |-> "Failed to generate topic content", details |-> err])

\* python.on('close') of /api/roadmap/generate-topic-content
topicOnClose(r, code) ==
  /\ ~down
  /\ route[r] = "topic"
  /\ child[r] = "running" /\ code \in ExitCodes
  /\ child' = [child EXCEPT ![r] = "closed"]
  /\ IF code # 0
     THEN json(r, topicFailed(errorData[r]))
     ELSE LET result == parseRecord(outputData[r])
          IN IF result.ok
             THEN json(r, Response(200, [type |-> result.type, data |-> result.data]))
             ELSE json(r, Response(500, [error |-> "Failed to parse content",
                                         details |-> <<"Unexpected token">>]))
  /\ UNCHANGED <<route, topic, outputData, errorData, roadmapHistory, now>>
  /\ UNCHANGED <<relayVars, clientVars, got>>

\* the child's 'error' event after a failed spawn: /api/roadmap/generate
\* answers 500; generate-topic-content has no listener, so the event is thrown
facadeChildError(r) ==
  /\ ~down
  /\ child[r] = "spawnfail"
  /\ IF route[r] = "roadmap"
     THEN /\ child' = [child EXCEPT ![r] = "errored"]
          /\ json(r, Response(500, [error |-> "Failed to start Python process",
                                    details |-> <<"spawn failed">>]))
     ELSE /\ down' = TRUE
          /\ UNCHANGED <<child, res>>
  /\ UNCHANGED <<route, topic, outputData, errorData, roadmapHistory, now>>
  /\ UNCHANGED <<relayVars, clientVars, got>>

\* Array.from(roadmapHistory.values()).sort(..): the entries, newest first
historySorted ==
  LET ids == DOMAIN roadmapHistory
      newer(id) == {o \in ids : roadmapHistory[o].createdAt > roadmapHistory[id].createdAt}
  IN [i \in 1..Cardinality(ids) |->
        roadmapHistory[CHOOSE id \in ids : Cardinality(newer(id)) = i - 1]]

\* app.get("/api/roadmap/history")
getHistory ==
  /\ ~down
  /\ got' = Response(200, [history |-> historySorted])
  /\ UNCHANGED <<route, topic, child, outputData, errorData, res, roadmapHistory, now, down>>
  /\ UNCHANGED <<relayVars, clientVars>>

\* the answer of GET /api/roadmap/:id
roadmapEntry(id) ==
  IF id \in DOMAIN roadmapHistory
  THEN Response(200, roadmapHistory[id])
  ELSE Response(404, [error |-> "Roadmap not found"])

\* GET /api/roadmap/:id that removes the entry it returns
getRoadmapOnce(id) ==
  /\ ~down
  /\ got' = roadmapEntry(id)
  /\ roadmapHistory' = [o \in (DOMAIN roadmapHistory) \ {id} |-> roadmapHistory[o]]
  /\ UNCHANGED <<route, topic, child, outputData, errorData, res, now, down>>
  /\ UNCHANGED <<relayVars, clientVars>>

\* app.get("/api/roadmap/:id")
getRoadmap(id) ==
  /\ ~down
  /\ got' = roadmapEntry(id)
  /\ UNCHANGED <<route, topic, child, outputData, errorData, res, roadmapHistory, now, down>>
  /\ UNCHANGED <<relayVars, clientVars>>

\* the ids a client may ask for
RoadmapIds == {toString(t) : t \in 0..MaxNow}

NextFacade ==
  \/ Tick
  \/ \E r \in Reqs, t \in TopicInputs, outcome \in SpawnOutcomes :
       postRoadmapGenerate(r, t, outcome)
  \/ \E r \in Reqs, t \in TopicInputs, topicTitle \in TitleInputs, outcome \in SpawnOutcomes :
       postGenerateTopicContent(r, t, topicTitle, outcome)
  \/ \E r \in Reqs, l \in FacadeLines : facadeStdoutOnData(r, l)
  \/ \E r \in Reqs, text \in StderrTexts : facadeStderrOnData(r, text)
  \/ \E r \in Reqs, code \in ExitCodes \cup {-2} : roadmapOnClose(r, code)
  \/ \E r \in Reqs, code \in ExitCodes : topicOnClose(r, code)
  \/ \E r \in Reqs : facadeChildError(r)

Init == relayInit /\ clientInit /\ facadeInit

NextClient ==
  \/ \E input \in LessonInputs : startLesson(input)
  \/ clearLesson
  \/ \E s \in Sockets : onopen(s)
  \/ \E s \in Sockets, stage \in Stages, i \in DOMAIN ProgressData :
       onmessage(s, progressMessage(stage, i))
  \/ \E s \in Sockets, title \in Titles, chunk \in Chunks :
       onmessage(s, contentChunkMessage(title, chunk))
  \/ \E s \in Sockets, i \in DOMAIN CompleteData : onmessage(s, completeMessage(i))
  \/ \E s \in Sockets, m \in ErrorMessages : onmessage(s, errorMessage(m))
  \/ \E s \in Sockets : onerror(s)

SpecClient == Init /\ [][NextClient]_vars
SpecFacade == Init /\ [][NextFacade]_vars

\* the facade with its GET endpoints
NextStore ==
  \/ NextFacade
  \/ getHistory
  \/ \E id \in RoadmapIds : getRoadmap(id)

SpecStore == Init /\ [][NextStore]_vars

Next ==
  \/ \E c \in Conns : PeerClose(c)
  \/ \E c \in Conns : wsOnClose(c)
  \/ \E c \in Conns, m \in Inbound, o \in SpawnOutcomes : wsOnMessage(c, m, o)
  \/ \E w \in Pids : ChildError(w)
  \/ \E w \in Pids, l \in WorkerLines : WorkerWrite(w, l)
  \/ \E w \in Pids, text \in StderrTexts : stderrOnData(w, text)
  \/ \E w \in Pids : \E k \in 1..Len(stdout[w]) : stdoutOnData(w, k)
  \/ \E w \in Pids, code \in ExitCodes : pythonOnClose(w, code)

Spec == Init /\ [][Next]_vars

\* ------------------------------------------------ either server
\* routes.ts and storage.ts each export registerRoutes: a server runs the
\* relay or the facade. The other one stays as constructed.
NextServer ==
  \/ facadeInit /\ Next
  \/ relayInit /\ NextFacade

SpecServer == Init /\ [][NextServer]_vars

\* ------------------------------------------------ accumulated state
\* The relay with one connection that stays open, whose workers print up to
\* MaxAccLines lines, progress messages with different data objects among them.
MaxAccLines == 3
AccLines == { <<"{", "p", "}">>, <<"{", "q", "}">>, <<"{", "c", "}">>, <<"{", "k", "}">> }

NextAcc ==
  \/ \E c \in Conns : wsOnMessage(c, "generate_lesson", "ok")
  \/ \E w \in Pids, l \in AccLines : WorkerPrints(w, l, MaxAccLines)
  \/ \E w \in Pids : \E k \in 1..Len(stdout[w]) : stdoutOnData(w, k)
  \/ \E w \in Pids, code \in ExitCodes : pythonOnClose(w, code)

SpecAcc == Init /\ [][NextAcc]_vars

\* ------------------------------------------------ several connections
\* The relay with MaxPeers connections open at once, each sending well-formed
\* generate_lesson messages whose spawn succeeds.
MaxPeers == 2
Peers == 1..MaxPeers
PeerLines == { <<"{", "p", "}">>, <<"{", "c", "}">>, <<"{", "k", "}">> }

InitPeers == relayStart(Peers) /\ clientInit /\ facadeInit

NextPeers ==
  \/ \E c \in Peers : PeerClose(c)
  \/ \E c \in Peers : wsOnClose(c)
  \/ \E c \in Peers : wsOnMessage(c, "generate_lesson", "ok")
  \/ \E w \in Pids, l \in PeerLines : WorkerWrite(w, l)
  \/ \E w \in Pids : \E k \in 1..Len(stdout[w]) : stdoutOnData(w, k)
  \/ \E w \in Pids, code \in ExitCodes : pythonOnClose(w, code)

SpecPeers == InitPeers /\ [][NextPeers]_vars

\* ---------------------------------------------------------------- claims
\* the events child w caused on its connection, in the order sent
EventsOf(w) == IF ws[w] \in Conns THEN SelectSeq(sent[ws[w]], LAMBDA e : e.src = w) ELSE <<>>
Count(seq, type) == Cardinality({i \in DOMAIN seq : seq[i].type = type})
Terminal == {"complete", "error"}
Spawned(w) == python[w] \in {"running", "closed"}

\* the lines child w has printed so far that JSON.parse accepts, in order
ParseableLines(w) ==
  LET ls == SelectSeq(filter(split(stdout[w])), LAMBDA p : JSONparse(p.text).ok)
  IN [i \in DOMAIN ls |-> [type |-> JSONparse(ls[i].text).type, line |-> LineAt(w, ls[i].start)]]

\* C1: at most one workflow is active per connection: no two children spawned
\* for the same connection are running at the same time.
C1_AtMostOneWorkerPerConnection ==
  \A v, w \in Pids :
    (v # w /\ python[v] = "running" /\ python[w] = "running") => ws[v] # ws[w]

\* C2: a connection that has closed has no child still running.
C2_WorkerTerminatedOnClose ==
  \A w \in Pids : python[w] = "running" => readyState[ws[w]] # "CLOSED"

\* C3: a step taken while a connection is not OPEN sends nothing on it.
C3_NoSendUnlessOpen ==
  [][\A c \in Conns : readyState[c] # "OPEN" => sent'[c] = sent[c]]_vars

\* C3 witness: a child printed a progress line and failed, all of it handled
\* after its connection had left OPEN, and nothing was sent for it.
C3_Witness ==
  \E w \in Pids :
    /\ python[w] = "closed" /\ exitCode[w] = 1 /\ closeSaw[w] # "OPEN"
    /\ \E i \in DOMAIN decoded[w] : decoded[w][i].type = "progress"
    /\ EventsOf(w) = <<>>

\* C4: once a child's output has been read to the end, the values decoded
\* are exactly the parseable lines it printed, in order, however the output
\* was cut into chunks.
C4_DecodesEveryParseableLine ==
  \A w \in Pids : python[w] = "closed" => decoded[w] = ParseableLines(w)

\* C5: on a connection that stayed open a workflow has at most one terminal
\* event, nothing after it, and exactly one once the child is gone.
C5_ExactlyOneTerminalEvent ==
  \A w \in Pids :
    (Spawned(w) /\ readyState[ws[w]] = "OPEN") =>
      LET ev == EventsOf(w)
          term == {i \in DOMAIN ev : ev[i].type \in Terminal}
      IN /\ Cardinality(term) <= 1
         /\ \A i \in term : i = Len(ev)
         /\ python[w] = "closed" => Cardinality(term) = 1

\* C6: a child that exits with a non-zero code without having printed a
\* complete line, its connection open, causes exactly one error event and no
\* complete event.
C6_FailedExitOneError ==
  \A w \in Pids :
    ( /\ python[w] = "closed" /\ exitCode[w] # 0 /\ closeSaw[w] = "OPEN"
      /\ \A i \in DOMAIN ParseableLines(w) : ParseableLines(w)[i].type # "complete" )
    => /\ Count(EventsOf(w), "error") = 1
       /\ Count(EventsOf(w), "complete") = 0

\* C6 witness: a child printed something, none of it a complete line, and
\* exited with code 1 while its connection was open.
C6_Witness ==
  \E w \in Pids :
    /\ python[w] = "closed" /\ exitCode[w] = 1 /\ closeSaw[w] = "OPEN"
    /\ ParseableLines(w) # <<>>
    /\ \A i \in DOMAIN ParseableLines(w) : ParseableLines(w)[i].type # "complete"

\* C7: a child that exits with code 0 without having printed a terminal
\* line, its connection open, causes an error event.
C7_CleanExitWithoutTerminalReported ==
  \A w \in Pids :
    ( /\ python[w] = "closed" /\ exitCode[w] = 0 /\ closeSaw[w] = "OPEN"
      /\ \A i \in DOMAIN ParseableLines(w) : ParseableLines(w)[i].type \notin Terminal )
    => Count(EventsOf(w), "error") >= 1

\* C8: a spawn failure is handled: the server survives it and an error event
\* for the failed child is on its connection.
C8_SpawnFailureReported ==
  \A w \in Pids :
    (python[w] = "spawnfail" /\ ~ENABLED ChildError(w)) =>
      /\ ~crashed
      /\ Count(EventsOf(w), "error") >= 1

\* C9: the events relayed from one child's lines are sent in the order of
\* those lines, one event per line, each of the type its line decodes to.
C9_OrderPreserved ==
  \A c \in Conns :
    \A i, j \in DOMAIN sent[c] :
      LET a == sent[c][i]
          b == sent[c][j]
      IN (a.line > 0 /\ b.line > 0 /\ a.src = b.src /\ i < j) =>
           /\ a.line < b.line
           /\ \E k \in DOMAIN ParseableLines(a.src) :
                ParseableLines(a.src)[k] = [type |-> a.type, line |-> a.line]
           /\ \E k \in DOMAIN ParseableLines(b.src) :
                ParseableLines(b.src)[k] = [type |-> b.type, line |-> b.line]

\* C9 witness: two lines of different types printed by one child were both relayed.
C9_Witness ==
  \E w \in Pids :
    /\ Len(EventsOf(w)) = 2
    /\ EventsOf(w)[1].line = 1 /\ EventsOf(w)[2].line = 2
    /\ EventsOf(w)[1].type # EventsOf(w)[2].type

\* C10: every decoded message of type progress, content_chunk, complete or
\* error is on the (open) connection as an event of the same type.
C10_EveryDecodedMessageForwarded ==
  \A w \in Pids :
    (Spawned(w) /\ readyState[ws[w]] = "OPEN") =>
      \A i \in DOMAIN decoded[w] :
        decoded[w][i].type \in {"progress", "content_chunk", "complete", "error"} =>
          \E k \in DOMAIN sent[ws[w]] :
            /\ sent[ws[w]][k].src = w
            /\ sent[ws[w]][k].line = decoded[w][i].line
            /\ sent[ws[w]][k].type = decoded[w][i].type

\* ---------------------------------------------------------------- client claims
Last == folded[Len(folded)]
LastIs(type) == lessonState # Null /\ folded # <<>> /\ Last.type = type

\* the fields of the state other than those in `except` are as before the last event
SameExcept(except) ==
  /\ DOMAIN lessonState = DOMAIN prevState
  /\ \A f \in (DOMAIN prevState) \ except : lessonState[f] = prevState[f]

\* the chunks of the folded events for `title`, concatenated in arrival order
RECURSIVE ChunksFor(_, _)
ChunksFor(title, n) ==
  IF n = 0 THEN <<>>
  ELSE ChunksFor(title, n - 1) \o
         (IF folded[n].type = "content_chunk" /\ folded[n].data.point_title = title
          THEN folded[n].data.chunk ELSE <<>>)

ContentOf(state, title) ==
  IF title \in DOMAIN state.content_data THEN state.content_data[title] ELSE <<>>

\* C11: after content_chunk events only, content_data[title] is the
\* concatenation in arrival order of the chunks for that title; a
\* content_chunk event changes no other title and no other field.
C11_ChunksConcatenated ==
  /\ (lessonState # Null /\ \A i \in DOMAIN folded : folded[i].type = "content_chunk") =>
       \A t \in Titles : ContentOf(lessonState, t) = ChunksFor(t, Len(folded))
  /\ LastIs("content_chunk") =>
       /\ SameExcept({"content_data"})
       /\ \A t \in Titles \ {Last.data.point_title} :
            /\ t \in DOMAIN lessonState.content_data <=> t \in DOMAIN prevState.content_data
            /\ ContentOf(lessonState, t) = ContentOf(prevState, t)

\* C11 witness: two different chunks for one title have been folded, in that order.
C11_Witness ==
  /\ lessonState # Null /\ Len(folded) = 2
  /\ folded[1].type = "content_chunk" /\ folded[2].type = "content_chunk"
  /\ folded[1].data.point_title = folded[2].data.point_title
  /\ folded[1].data.chunk = <<"H">> /\ folded[2].data.chunk = <<"w">>
  /\ lessonState.content_data[folded[1].data.point_title] = <<"H", "w">>

\* C12: after a progress event current_processing is the stage of the event,
\* whatever its data holds.
C12_StageWins ==
  LastIs("progress") => lessonState.current_processing = Last.data.stage

\* C13: a progress event gives every field its data names the value of the
\* data and leaves every other field but current_processing as it was.
C13_ShallowMerge ==
  LastIs("progress") =>
    /\ \A f \in DOMAIN Last.data.data :
         f \in DOMAIN lessonState /\ lessonState[f] = Last.data.data[f]
    /\ \A f \in (DOMAIN prevState) \ ((DOMAIN Last.data.data) \cup {"current_processing"}) :
         f \in DOMAIN lessonState /\ lessonState[f] = prevState[f]

\* C13 witness: a progress event that names one field arrives after content
\* and an error have accumulated.
C13_Witness ==
  /\ LastIs("progress") /\ Len(folded) = 3
  /\ DOMAIN Last.data.data = {"quiz"}
  /\ lessonState.content_data # EmptyObject
  /\ lessonState.errors # <<>>

\* C14: a complete event sets current_processing to "complete" and changes
\* nothing else, whatever data it carries.
C14_CompleteOnlyStage ==
  LastIs("complete") =>
    /\ lessonState.current_processing = "complete"
    /\ SameExcept({"current_processing"})

\* C14 witness: a complete event carrying key_points arrives after a progress
\* event has set key_points.
C14_Witness ==
  /\ LastIs("complete") /\ Len(folded) = 2
  /\ DOMAIN Last.data = {"key_points"}
  /\ folded[1].type = "progress" /\ DOMAIN folded[1].data.data = {"key_points"}
  /\ lessonState.key_points = <<"kp">>

\* C15: an error event appends its message to errors and changes nothing else.
C15_ErrorAppends ==
  LastIs("error") =>
    /\ lessonState.errors = Append(prevState.errors, Last.data.message)
    /\ SameExcept({"errors"})

\* C15 witness: an error event arrives after content has accumulated, and the
\* content and the stage are still there.
C15_Witness ==
  /\ LastIs("error") /\ Len(folded) = 3
  /\ folded[1].type = "progress" /\ folded[2].type = "content_chunk"
  /\ lessonState.content_data # EmptyObject
  /\ lessonState.current_processing = folded[1].data.stage
  /\ Len(lessonState.errors) = 1

\* C16: a progress, content_chunk or complete event never changes errors.
C16_ErrorsAppendOnly ==
  (LastIs("progress") \/ LastIs("content_chunk") \/ LastIs("complete")) =>
    lessonState.errors = prevState.errors


\* ------------------------------------------------- claims C17 .. C20
\* the lines child w has printed so far, without their newline
PrintedLines(w) ==
  LET ls == split(stdout[w]) IN [i \in 1..(Len(ls) - 1) |-> ls[i].text]
\* empty, whitespace-only or not valid JSON
Noise(text) == ~JSONparse(text).ok

\* C17: on an open connection a line that is empty, whitespace-only or not
\* JSON causes no event, and every later parseable line that arrived whole in
\* one chunk has been decoded and has caused an event of its type.
C17_NoiseSkipped ==
  \A w \in Pids :
    (Spawned(w) /\ readyState[ws[w]] = "OPEN") =>
      \A i \in DOMAIN PrintedLines(w) :
        Noise(PrintedLines(w)[i]) =>
          /\ \A e \in DOMAIN EventsOf(w) : EventsOf(w)[e].line # i
          /\ \A j \in whole[w] :
               (j > i /\ ~Noise(PrintedLines(w)[j])) =>
                 /\ \E d \in DOMAIN decoded[w] : decoded[w][d].line = j
                 /\ \E e \in DOMAIN EventsOf(w) :
                      /\ EventsOf(w)[e].line = j
                      /\ EventsOf(w)[e].type = JSONparse(PrintedLines(w)[j]).type

\* the half of C17 that is about decoding only
NoiseSkippedDecoding ==
  \A w \in Pids :
    Spawned(w) =>
      \A i \in DOMAIN PrintedLines(w) :
        Noise(PrintedLines(w)[i]) =>
          /\ \A e \in DOMAIN EventsOf(w) : EventsOf(w)[e].line # i
          /\ \A d \in DOMAIN decoded[w] : decoded[w][d].line # i
          /\ \A j \in whole[w] :
               (j > i /\ ~Noise(PrintedLines(w)[j])) =>
                 \E d \in DOMAIN decoded[w] : decoded[w][d].line = j

\* C18: no child is started for a generate_lesson message whose data lacks a
\* valid topic, age_group or knowledge_level: every child that was spawned, or
\* whose spawn was attempted, was given a valid request.
C18_NoSpawnForInvalidRequest ==
  \A w \in Pids : python[w] # "none" => env[w] = "valid"

\* C19: when a child that wrote to stderr exits with a non-zero code while its
\* connection is open, the error event sent for it carries the last text the
\* child wrote to stderr (the texts of the model are shorter than any bound).
C19_ErrorCarriesStderr ==
  \A w \in Pids :
    (python[w] = "closed" /\ exitCode[w] # 0 /\ closeSaw[w] = "OPEN" /\ stderr[w] # <<>>) =>
      \E e \in DOMAIN EventsOf(w) :
        /\ EventsOf(w)[e].type = "error"
        /\ EventsOf(w)[e].data.message = stderr[w][Len(stderr[w])]

\* the contents a child's stderr may have in another run
StderrContents == {<<>>} \cup {<<text>> : text \in StderrTexts}

\* C20: no HTTP response depends on what the child wrote to stderr: a
\* response that the 'close' handler built for a failed child is the response
\* it builds for the same exit code and any other stderr content.
C20_StderrNeverShown ==
  \A r \in Reqs, e \in StderrContents :
    \A i \in DOMAIN res[r] :
      /\ \A code \in ExitCodes \cup {-2} :
           res[r][i] = roadmapFailed(code, errorData[r]) => res[r][i] = roadmapFailed(code, e)
      /\ res[r][i] = topicFailed(errorData[r]) => res[r][i] = topicFailed(e)

\* ------------------------------------------------- claims C21 .. C30
\* the progress messages decoded for child w from the lines before line n
ProgressBefore(w, n) ==
  {i \in DOMAIN decoded[w] : decoded[w][i].type = "progress" /\ decoded[w][i].line < n}
\* the data object of the i-th message decoded for child w
DecodedData(w, i) == DataObject(JSONparse(PrintedLines(w)[decoded[w][i].line]).data)
\* their data objects merged left to right: each field has the value the last
\* of them that names it gives, and is undefined when none names it
AccumulatedBefore(w, n) ==
  [f \in Fields |->
     LET naming == {i \in ProgressBefore(w, n) : f \in DOMAIN DecodedData(w, i)}
     IN IF naming = {} THEN "undefined"
        ELSE DecodedData(w, CHOOSE i \in naming : \A k \in naming : k <= i)[f]]

\* C21: every event on a connection comes from a request of that connection:
\* it is the answer to a bad message (no child), or its child was spawned for
\* that connection and, when it relays a line, that line is a line of that
\* child's own output with the event's type; the data of a complete event is
\* the merge of that child's own progress messages.
C21_ConnectionsIndependent ==
  \A c \in DOMAIN sent :
    \A i \in DOMAIN sent[c] :
      LET e == sent[c][i] IN
      e.src # 0 =>
        /\ ws[e.src] = c
        /\ e.line # 0 =>
             /\ e.line \in DOMAIN PrintedLines(e.src)
             /\ JSONparse(PrintedLines(e.src)[e.line]).type = e.type
        /\ e.type = "complete" => e.data = AccumulatedBefore(e.src, e.line)

\* C21 witness: two children run for two different connections; one printed
\* a progress line, which was sent to its connection, and the other a complete
\* line, whose event on the other connection carries nothing of that progress.
C21_Witness ==
  \E v, w \in Pids :
    /\ ws[v] # ws[w] /\ ws[v] # 0 /\ ws[w] # 0
    /\ \E i \in DOMAIN sent[ws[v]] :
         sent[ws[v]][i].type = "progress" /\ sent[ws[v]][i].src = v
    /\ \E i \in DOMAIN sent[ws[w]] :
         /\ sent[ws[w]][i].type = "complete" /\ sent[ws[w]][i].src = w
         /\ sent[ws[w]][i].data = EmptyState

\* socket s delivers an event: a message of any type, or a connection error
Delivers(s) ==
  \/ \E stage \in Stages, i \in DOMAIN ProgressData : onmessage(s, progressMessage(stage, i))
  \/ \E title \in Titles, chunk \in Chunks : onmessage(s, contentChunkMessage(title, chunk))
  \/ \E i \in DOMAIN CompleteData : onmessage(s, completeMessage(i))
  \/ \E m \in ErrorMessages : onmessage(s, errorMessage(m))
  \/ onerror(s)

\* C22: an event delivered on a WebSocket that an earlier startLesson opened
\* (any socket but the one the last startLesson created) leaves lessonState
\* as it is.
C22_OnlyCurrentWorkflow ==
  [][\A s \in Sockets : (s # wsRef /\ Delivers(s)) => lessonState' = lessonState]_vars

\* the part of C22 about clearLesson: while no startLesson follows a
\* clearLesson, the state stays null whatever is delivered
ClearedStaysNull ==
  [][(lessonState = Null /\ \E s \in Sockets : Delivers(s)) => lessonState' = Null]_vars

\* the children started so far, by the relay and by the facade
SpawnedRelay == {w \in Pids : python[w] # "none"}
SpawnedFacade == {r \in Reqs : child[r] # "none"}
GenerateLesson == {"generate_lesson", "generate_lesson_invalid"}
SpawnReturns == {"ok", "error"}

\* C23: nothing is retried. In every step of the relay: a child that was
\* started stays started and one that has closed or failed to start stays so;
\* a child appears only in a step that handles an inbound message, one at
\* most; a generate_lesson message whose spawn returns starts exactly one.
\* In every step of the facade: the same, with the POST request in place of
\* the message.
C23_NoRetry ==
  [][ /\ \A w \in Pids :
           /\ python[w] # "none" => python'[w] # "none"
           /\ python[w] \in {"closed", "spawnfail"} => python'[w] = python[w]
      /\ Cardinality(SpawnedRelay') <= Cardinality(SpawnedRelay) + 1
      /\ SpawnedRelay' # SpawnedRelay => received' = received + 1
      /\ (\E c \in Conns, m \in GenerateLesson, o \in SpawnReturns : wsOnMessage(c, m, o))
           => Cardinality(SpawnedRelay') = Cardinality(SpawnedRelay) + 1
      /\ \A r \in Reqs :
           /\ child[r] # "none" => child'[r] \notin {"none", "running"} \/ child'[r] = child[r]
           /\ (child[r] = "none" /\ child'[r] # "none") => (route[r] = "none" /\ route'[r] # "none")
      /\ Cardinality(SpawnedFacade') <= Cardinality(SpawnedFacade) + 1
      /\ (\E r \in Reqs, o \in SpawnReturns :
            \/ postRoadmapGenerate(r, "ai", o)
            \/ postGenerateTopicContent(r, "ai", "intro", o))
           => Cardinality(SpawnedFacade') = Cardinality(SpawnedFacade) + 1
    ]_vars

\* C23 witness: the one child of the relay failed, its connection heard of it
\* and has since closed, and no other child was started.
C23_Witness ==
  /\ SpawnedRelay = {1}
  /\ python[1] = "closed" /\ exitCode[1] = 1 /\ closeSaw[1] = "OPEN"
  /\ readyState[ws[1]] = "CLOSED"
  /\ received = 1

\* C24: the data of every complete event equals the left-to-right shallow
\* merge of the data objects of the progress messages decoded for its child
\* before the complete line; content_chunk messages do not enter it.
C24_CompleteCarriesAccumulated ==
  \A c \in DOMAIN sent :
    \A i \in DOMAIN sent[c] :
      (sent[c][i].type = "complete" /\ sent[c][i].src # 0) =>
        sent[c][i].data = AccumulatedBefore(sent[c][i].src, sent[c][i].line)

\* C24 witness: a child printed two progress lines that both name key_points
\* and then a complete line; the complete event carries the later value.
C24_Witness ==
  \E c \in DOMAIN sent :
    \E i \in DOMAIN sent[c] :
      /\ sent[c][i].type = "complete"
      /\ sent[c][i].data = [key_points |-> "set", quiz |-> "set"]
      /\ Cardinality(ProgressBefore(sent[c][i].src, sent[c][i].line)) = 2

\* the non-blank lines of a buffered output, decoded
Records(out) ==
  LET ls == SelectSeq(split(trimWhitespace(out)), LAMBDA p : trimWhitespace(p.text) # <<>>)
  IN [i \in DOMAIN ls |-> parseRecord(ls[i].text)]
\* newline-delimited JSON with a metadata record
WellFormed(out) ==
  /\ \A i \in DOMAIN Records(out) : Records(out)[i].ok
  /\ \E i \in DOMAIN Records(out) : Records(out)[i].type = "metadata"
\* the fields of the first metadata record's data, plus phases: the data of
\* the phase records in emission order
Assembled(out) ==
  LET recs == Records(out)
      meta == recs[CHOOSE i \in DOMAIN recs :
                     /\ recs[i].type = "metadata"
                     /\ \A k \in DOMAIN recs : recs[k].type = "metadata" => i <= k]
      phases == SelectSeq(recs, LAMBDA o : o.type = "phase")
  IN Spread(meta.data, [phases |-> [i \in DOMAIN phases |-> phases[i].data]])
\* the 'close' handler of request r answers it in this step
RoadmapAnswered(r, code) == roadmapOnClose(r, code) /\ res[r] = <<>>
AllCodes == ExitCodes \cup {-2}

HasBadLine(out) == \E i \in DOMAIN Records(out) : ~Records(out)[i].ok

\* C26: when the close handler of a roadmap request runs on a buffered output
\* with a non-blank line that is not valid JSON, it stores no history entry
\* and its answer is an error response, whatever the other lines hold.
C26_ParseFailureIsFatal ==
  [][\A r \in Reqs, code \in AllCodes :
       (roadmapOnClose(r, code) /\ HasBadLine(outputData[r])) =>
         /\ roadmapHistory' = roadmapHistory
         /\ res[r] = <<>> =>
              /\ res'[r][1].status = 500
              /\ "error" \in DOMAIN res'[r][1].body]_vars

\* C26 witness: the worker printed a valid metadata record and a line of
\* noise and exited cleanly; the request was answered with the parse error
\* and the history is empty.
C26_Witness ==
  \E r \in Reqs :
    /\ outputData[r] = <<"{", "m", "}", NL, "#", NL>>
    /\ res[r] # <<>>
    /\ res[r][1].body.error = "Failed to parse roadmap response"
    /\ DOMAIN roadmapHistory = {}

\* C27: every facade request gets exactly one response: never more than one,
\* and one once its child has exited or the failure of its start has been
\* raised in the server.
C27_ExactlyOneResponse ==
  \A r \in Reqs :
    /\ Len(res[r]) <= 1
    /\ child[r] \in {"closed", "errored"} => Len(res[r]) = 1
    /\ (child[r] = "spawnfail" /\ down) => Len(res[r]) = 1
    /\ ~down

\* the roadmap requests that were answered with 200
Succeeded == {r \in Reqs : route[r] = "roadmap" /\ res[r] # <<>> /\ res[r][1].status = 200}

\* C28: for every 200 response {roadmap, roadmapId}, GET /api/roadmap/:id with
\* that roadmapId answers 200 with that roadmap, and the history has as many
\* entries as there were successful generations.
C28_SuccessStaysRetrievable ==
  /\ \A r \in Succeeded :
       /\ roadmapEntry(res[r][1].body.roadmapId).status = 200
       /\ roadmapEntry(res[r][1].body.roadmapId).body.roadmap = res[r][1].body.roadmap
  /\ Cardinality(DOMAIN roadmapHistory) = Cardinality(Succeeded)

\* C29: the history changes only in the step in which a roadmap request is
\* answered with 200: both GET endpoints, the 404 answer included, every step
\* of a generate-topic-content request and every close of a roadmap request
\* that is answered with an error leave roadmapHistory as it is.
C29_HistoryChangesOnlyOnSuccess ==
  [][ /\ roadmapHistory' # roadmapHistory =>
           \E r \in Reqs :
             /\ roadmapOnClose(r, 0)
             /\ res[r] = <<>> /\ res'[r][1].status = 200
      /\ (getHistory \/ \E id \in RoadmapIds : getRoadmap(id)) =>
           roadmapHistory' = roadmapHistory
      /\ \A r \in Reqs :
           (route'[r] = "topic" /\ <<route[r], child[r], res[r], outputData[r], errorData[r]>>
                                   # <<route'[r], child'[r], res'[r], outputData'[r], errorData'[r]>>) =>
             roadmapHistory' = roadmapHistory
      /\ \A r \in Reqs :
           (route[r] = "roadmap" /\ res[r] = <<>> /\ res'[r] # <<>> /\ res'[r][1].status # 200) =>
             roadmapHistory' = roadmapHistory
    ]_vars

\* C29 witness: with one roadmap stored, a roadmap request has ended in an
\* error response and a GET for an unknown id was answered 404; the history
\* still holds the one entry.
C29_Witness ==
  /\ Cardinality(DOMAIN roadmapHistory) = 1
  /\ Cardinality(Succeeded) = 1
  /\ \E r \in Reqs : route[r] = "roadmap" /\ res[r] # <<>> /\ res[r][1].status = 500
  /\ got.status = 404

\* the answer the claim names
ProcessingError == Event("error", [message |-> "Failed to process request"], 0, 0)
\* the message is answered with exactly that one event and starts no child
AnsweredWithError(c) ==
  /\ sent' = [sent EXCEPT ![c] = Append(@, ProcessingError)]
  /\ python' = python
\* the message causes no event and starts no child
Ignored == sent' = sent /\ python' = python

\* C30 as stated: text that is not JSON is answered with one error event
\* 'Failed to process request' and starts no child; every valid JSON text
\* whose type is not generate_lesson, the text null included, causes no event
\* and starts no child.
C30_BadMessagesHandled ==
  [][\A c \in Conns :
       /\ wsOnMessage(c, "badjson", "ok") => AnsweredWithError(c)
       /\ \A m \in {"other", "null"} : wsOnMessage(c, m, "ok") => Ignored]_vars

\* C30 amended: text that is not JSON, and the JSON text null, are answered
\* with one error event 'Failed to process request' and start no child; a
\* JSON value other than null whose type is not generate_lesson causes no
\* event and starts no child.
C30_BadMessagesHandledExceptNull ==
  [][\A c \in Conns :
       /\ \A m \in {"badjson", "null"} : wsOnMessage(c, m, "ok") => AnsweredWithError(c)
       /\ wsOnMessage(c, "other", "ok") => Ignored]_vars

\* C30 witness: two messages were handled, one of them answered with the
\* error event, and no child was started.
C30_Witness ==
  /\ received = 2
  /\ SpawnedRelay = {}
  /\ \E c \in Conns : sent[c] = <<ProcessingError>>

====
